---- MODULE Spec2Model ----
(***************************************************************************)
(* Hermes: the ingestion / dedup / enrichment pipeline and the reporting   *)
(* step that follows it.                                                   *)
(*   src/hermes/feed_processor.py  FeedProcessor                           *)
(*   src/hermes/ai_wrapper.py      OpenAIWrapper                           *)
(* One asyncio task per feed; a task is suspended only at an await that    *)
(* really yields (sismember, sleep, chat.completions.create, hset, sadd).  *)
(* An action is the code a task runs between two such suspensions.         *)
(* Text is a sequence of one-character strings; an error message is a      *)
(* sequence of tokens.  Delays are in tenths of a second.                  *)
(***************************************************************************)
EXTENDS Integers, Sequences, FiniteSets, TLC

VARIABLES
    feeds,              \* the run's configuration: feed_urls and what each feed serves
    creds,              \* the environment: which credentials are set
    phase,              \* "start" (nothing constructed), "config_error",
                        \* process_feeds: "idle", "fetching" (awaiting gather),
                        \* "notifying" (awaiting send_notification),
                        \* "returned", "raised"
    pc,                 \* per task: the await it is suspended at
    idx,                \* per task: position in feed.entries
    retry_count,        \* per task: analyze_entry's local retry_count
    analysis,           \* per task: what analyze_entry returned for the current entry
    rate_limit_delay,   \* OpenAIWrapper.rate_limit_delay, shared by all tasks
    processed_entries,  \* the store's set "processed_entries"
    records,            \* the store's hashes entry:<hash>
    important_entries,  \* FeedProcessor.important_entries
    total_entries,      \* FeedProcessor.total_entries
    faults,             \* store calls that have raised so far
    invocations,        \* history: analyze_entry invocations, per task and identity
    escaped,            \* history: an exception has left analyze_entry
    cur,                \* history: per task, what happened to the current entry
    aborted,            \* history: per task, the entries whose process_entry raised
    report,             \* history: what the last reporting step did
    call                \* history: the last direct call of a method and its result

vars == <<feeds, phase, pc, idx, retry_count, analysis, rate_limit_delay,
          processed_entries, records, important_entries, total_entries,
          faults, invocations, escaped, cur, aborted, report, creds, call>>

-----------------------------------------------------------------------------
(* Bounds *)

MaxStoreFaults == 2
MaxItems == 2
MaxContent == 5
MaxLimit == 3

-----------------------------------------------------------------------------
(* Text *)

Contains(text, sub) ==
    \E i \in 0..(Len(text) - Len(sub)) : SubSeq(text, i + 1, i + Len(sub)) = sub

\* str.lower on one element of a text: a character, or a word of a text
\* written in words
LowerChar(c) ==
    CASE c = "K" -> "k"
      [] c = "A" -> "a"
      [] c = "B" -> "b"
      [] c = "Critical" -> "critical"
      [] c = "URGENT" -> "urgent"
      [] OTHER -> c

Lower(text) == [i \in 1..Len(text) |-> LowerChar(text[i])]

-----------------------------------------------------------------------------
(* JSON values and texts.  A text either parses as JSON to a value or does *)
(* not parse; a value is a dict, a string, a list, a number or null.       *)

\* what a dict holds under "deadline" or "impact": a string (its
\* characters or words), null, a number, or no such key
DStr(chars) == [k |-> "str", v |-> chars]
DNull == [k |-> "null", v |-> <<>>]
DNum == [k |-> "num", v |-> <<>>]
DMissing == [k |-> "missing", v |-> <<>>]
NoDeadline == DStr(<<"No deadline">>)

NoVal == [t |-> "none", deadline |-> DMissing, is_important |-> FALSE,
          actions |-> <<>>, summary |-> "", inner |-> "", ni |-> FALSE,
          impact |-> DMissing]

Dict(summary, deadline, actions, imp, ni) ==
    [t |-> "dict", deadline |-> deadline, is_important |-> imp,
     actions |-> actions, summary |-> summary, inner |-> "", ni |-> ni,
     impact |-> DMissing]

EmptyDict == [NoVal EXCEPT !.t = "empty"]
ListVal == [NoVal EXCEPT !.t = "list"]
\* a JSON string literal; inner says what the string's own content is
StrVal(inner) == [NoVal EXCEPT !.t = "str", !.inner = inner]
ErrorDict(what) == [NoVal EXCEPT !.t = "dict", !.summary = what]

JsonText(v) == [json |-> TRUE, val |-> v]
Garbage == [json |-> FALSE, val |-> NoVal]
NoText == [json |-> FALSE, val |-> [NoVal EXCEPT !.t = "unset"]]

json_dumps(v) == JsonText(v)
json_parses(text) == text.json
json_loads(text) == text.val

\* json.loads of the content of a string value
inner_parses(v) == v.inner = "json"
inner_loads(v) == EmptyDict

-----------------------------------------------------------------------------
(* Entries.  content is what entry.get("content") holds: absent, a list    *)
(* whose first item has a value, or a list whose first item has no value.  *)
(* has_title says whether the parsed item has a title key at all.          *)

MkEntry(title, link, published, summary, ckind, cvalue) ==
    [title |-> title, link |-> link, published |-> published,
     summary |-> summary, ckind |-> ckind, cvalue |-> cvalue,
     has_title |-> TRUE]

\* entry.get("content", [{"value": ""}])[0].get("value", "")
content_value(e) == IF e.ckind = "value" THEN e.cvalue ELSE <<>>

EA == MkEntry(<<"K", "a">>, <<"l", "1">>, <<"d">>, <<>>, "absent", <<>>)
EB == MkEntry(<<"b">>, <<"l", "2">>, <<>>, <<"x", "k">>, "value", <<"c">>)
EC == MkEntry(<<"c">>, <<"l", "3">>, <<>>, <<"x">>, "absent", <<>>)
ED == MkEntry(<<"k">>, <<"l", "4">>, <<>>, <<>>, "novalue", <<>>)
\* an item without a title element
EN == [MkEntry(<<>>, <<"l", "5">>, <<>>, <<"K">>, "absent", <<>>)
         EXCEPT !.has_title = FALSE]

\* a feed: what feedparser.parse(url) does ("ok", "raise", or "bozo": a
\* parse error that left no entries) and the entries it returns
Feed(url, fetch, entries) == [url |-> url, fetch |-> fetch, entries |-> entries]

FeedConfigs ==
    { <<Feed("A", "ok", <<EA, EA>>)>>,
      <<Feed("A", "ok", <<EA>>), Feed("B", "ok", <<EA>>)>>,
      <<Feed("A", "ok", <<EB, EC>>), Feed("B", "ok", <<ED>>)>>,
      <<Feed("A", "raise", <<>>), Feed("B", "ok", <<EC, EA>>)>>,
      <<Feed("A", "bozo", <<>>), Feed("B", "ok", <<EB>>)>>,
      <<Feed("A", "ok", <<EN, EA>>)>> }

\* FeedProcessor.keywords
keywords == {<<"K">>}

\* get_entry_hash: the SHA-256 digest is taken as injective, so an identity
\* is the digest's input, the three fields concatenated
get_entry_hash(e) == e.title \o e.link \o e.published

AllHashes == {get_entry_hash(e) : e \in {EA, EB, EC, ED, EN}}

\* a match that compares the keyword as written
keyword_match_case_sensitive(kws, e) ==
    IF kws = {} THEN TRUE
    ELSE LET content == e.title \o <<" ">> \o e.summary \o <<" ">>
                            \o content_value(e)
         IN \E k \in kws : Contains(content, k)

\* matches_keywords for a processor whose keywords are kws
keyword_match(kws, e) ==
    IF kws = {} THEN TRUE
    ELSE LET content == Lower(e.title \o <<" ">> \o e.summary \o <<" ">>
                              \o content_value(e))
         IN \E k \in kws : Contains(content, Lower(k))

\* a filter that lets every entry through
matches_keywords_all(e) == TRUE

matches_keywords(e) == keyword_match(keywords, e)

-----------------------------------------------------------------------------
(* The analysis endpoint: what one chat.completions.create call does.      *)

Digits == {"0", "1", "2", "3", "4", "5", "6", "7", "8", "9"}

DigitVal(c) ==
    CASE c = "0" -> 0 [] c = "1" -> 1 [] c = "2" -> 2 [] c = "3" -> 3
      [] c = "4" -> 4 [] c = "5" -> 5 [] c = "6" -> 6 [] c = "7" -> 7
      [] c = "8" -> 8 [] c = "9" -> 9

RateLimitMarker == <<"rate_limit_exceeded">>
TryAgainIn == "try again in "

MsgHint2 == <<"rate_limit_exceeded", ":", TryAgainIn, "2", "s">>
MsgHintFrac == <<"rate_limit_exceeded", ":", TryAgainIn, "0", ".", "5", "s">>
MsgMillis == <<"rate_limit_exceeded", ":", TryAgainIn, "2", "0", "m", "s">>
MsgNoHint == <<"rate_limit_exceeded">>
MsgOther == <<"Connection error.">>
MsgInvalidJson == <<"Invalid JSON response from OpenAI">>
MsgNoValue == <<"object has no attribute 'value'">>

ThrottleMessages == {MsgHint2, MsgHintFrac, MsgMillis, MsgNoHint}

ManualReview == "Please review this entry manually"

Completions ==
    { JsonText(Dict("s", DStr(<<"2", "0", "9", "9", "-", "0", "1", "-", "0", "1">>),
                    <<"upgrade">>, TRUE, FALSE)),
      JsonText(EmptyDict),
      JsonText(ListVal),
      JsonText(StrVal("garbage")),
      Garbage }

Returned(text) == [kind |-> "text", text |-> text, msg |-> <<>>]
Throttled(msg) == [kind |-> "throttled", text |-> NoText, msg |-> msg]
Failed(msg) == [kind |-> "other", text |-> NoText, msg |-> msg]

ApiOutcomes ==
    {Returned(c) : c \in Completions}
        \cup {Throttled(m) : m \in ThrottleMessages}
        \cup {Failed(MsgOther)}

-----------------------------------------------------------------------------
(* OpenAIWrapper *)

max_retries == 3
DefaultWait == 30
WaitBuffer == 1

RECURSIVE DigitRunEnd(_, _)
\* the last index of the run of digits of msg that starts at k (k - 1: none)
DigitRunEnd(msg, k) ==
    IF k <= Len(msg) /\ msg[k] \in Digits THEN DigitRunEnd(msg, k + 1) ELSE k - 1

RECURSIVE NumVal(_, _, _)
\* the number written by the digits msg[lo..hi]
NumVal(msg, lo, hi) ==
    IF hi < lo THEN 0 ELSE 10 * NumVal(msg, lo, hi - 1) + DigitVal(msg[hi])

\* re.search(r"try again in (\d+\.?\d*)s", msg) matching at token i: the
\* matched number in tenths of a second, or -1 when there is no match at i
WaitMatchAt(msg, i) ==
    IF msg[i] # TryAgainIn THEN -1
    ELSE LET a == DigitRunEnd(msg, i + 1)
         IN IF a < i + 1 \/ a + 1 > Len(msg) THEN -1
            ELSE IF msg[a + 1] = "s" THEN 10 * NumVal(msg, i + 1, a)
            ELSE IF msg[a + 1] # "." THEN -1
            ELSE LET b == DigitRunEnd(msg, a + 2)
                 IN IF b + 1 > Len(msg) \/ msg[b + 1] # "s" THEN -1
                    ELSE 10 * NumVal(msg, i + 1, a)
                         + (IF b >= a + 2 THEN DigitVal(msg[a + 2]) ELSE 0)

\* _handle_rate_limit returning the matched wait without the buffer
handle_rate_limit_unbuffered(msg) ==
    LET hits == {i \in 1..Len(msg) : WaitMatchAt(msg, i) >= 0}
    IN IF hits # {}
       THEN LET first == CHOOSE i \in hits : \A j \in hits : i <= j
            IN WaitMatchAt(msg, first)
       ELSE 10 * DefaultWait

\* _handle_rate_limit: the delay, in tenths of a second
handle_rate_limit(msg) ==
    LET hits == {i \in 1..Len(msg) : WaitMatchAt(msg, i) >= 0}
    IN IF hits # {}
       THEN LET first == CHOOSE i \in hits : \A j \in hits : i <= j
            IN WaitMatchAt(msg, first) + 10 * WaitBuffer
       ELSE 10 * DefaultWait

\* every failure taken for a throttling signal
is_rate_limit_any(msg) == TRUE

\* the malformed-response error taken for a throttling signal too
is_rate_limit_or_invalid(msg) ==
    Contains(msg, RateLimitMarker) \/ msg = MsgInvalidJson

\* "rate_limit_exceeded" in error_message
is_rate_limit(msg) == Contains(msg, RateLimitMarker)

\* a handler that catches the endpoint's errors and ValueError only
catches_api_errors(msg) ==
    msg \in ThrottleMessages \cup {MsgOther, MsgInvalidJson}

\* except Exception as e: what analyze_entry's handler catches
catches(msg) == TRUE

Degraded(summary) ==
    json_dumps([Dict(summary, NoDeadline, <<ManualReview>>, FALSE, FALSE)
                   EXCEPT !.impact = DStr(<<"Analysis failed">>)])

DegradedError == Degraded("Failed to analyze entry due to an error")
DegradedRateLimit == Degraded("Failed to analyze entry due to rate limit")

-----------------------------------------------------------------------------
(* FeedProcessor.save_entry up to its first store call *)

\* the analysis_data save_entry stores for the analysis it is given;
\* "raise" when the branch at lines 386-390 fails (it names an unbound e)
stored_analysis(a) ==
    IF a.t = "str"
    THEN IF inner_parses(a) THEN inner_loads(a) ELSE [NoVal EXCEPT !.t = "raise"]
    ELSE IF a.t \in {"dict", "empty"} THEN a
    ELSE ErrorDict("Invalid analysis data type")

entry_data(h, e, a, url) ==
    [title |-> e.title, link |-> e.link, published |-> e.published,
     hash |-> h, feed_name |-> url, analysis |-> json_dumps(stored_analysis(a))]

\* a membership write that replaces the set
sadd_replacing(members, h) == {h}

\* redis sadd("processed_entries", h) on the set members
sadd(members, h) == members \cup {h}

\* the membership add made before the record write
SaveOrder_membership_first == <<"sadd", "hset">>

\* the order of save_entry's two store writes
SaveOrder == <<"hset", "sadd">>

\* "not_important" not in str(analysis_data).lower()
is_buffered(a) == ~a.ni

important_entry(e, a, url) ==
    [title |-> e.title, link |-> e.link, analysis |-> a,
     published |-> e.published, feed_name |-> url]

-----------------------------------------------------------------------------
(* Reporting: send_summary_notification and generate_report.  A date is    *)
(* the number yyyymmdd; the clock is a date and whether the time of day is *)
(* exactly midnight.                                                       *)

ValueError == -1

IsLeap(y) == (y % 4 = 0 /\ y % 100 # 0) \/ y % 400 = 0

DaysInMonth(y, m) ==
    IF m = 2 THEN (IF IsLeap(y) THEN 29 ELSE 28)
    ELSE IF m \in {4, 6, 9, 11} THEN 30
    ELSE 31

\* datetime.strptime(text, "%Y-%m-%d"): four digits, "-", a month written
\* with one or two digits, "-", a day written with one or two digits, and
\* nothing after it; the date must exist.  The date, or ValueError.
strptime(text) ==
    LET ye == DigitRunEnd(text, 1)
    IN IF ye # 4 \/ Len(text) < 5 THEN ValueError
       ELSE IF text[5] # "-" THEN ValueError
       ELSE LET me == DigitRunEnd(text, 6)
                y == NumVal(text, 1, 4)
                m == NumVal(text, 6, me)
            IN IF me - 5 \notin {1, 2} \/ m \notin 1..12 \/ Len(text) < me + 1
               THEN ValueError
               ELSE IF text[me + 1] # "-" THEN ValueError
               ELSE LET de == DigitRunEnd(text, me + 2)
                        d == NumVal(text, me + 2, de)
                    IN IF de - (me + 1) \notin {1, 2} \/ de # Len(text)
                          \/ y < 1 \/ d < 1 \/ d > DaysInMonth(y, m)
                       THEN ValueError
                       ELSE y * 10000 + m * 100 + d

\* deadline_date < datetime.datetime.now(), deadline_date being midnight
passed(date, now) == date < now.date \/ (date = now.date /\ ~now.midnight)

\* the analysis of a buffered item as the loops read it: a string is
\* decoded first (decodes: json.loads does not raise)
decodes(item) == item.analysis.t # "str" \/ inner_parses(item.analysis)
decoded(item) ==
    IF item.analysis.t = "str" THEN inner_loads(item.analysis)
    ELSE item.analysis

\* analysis.get("deadline", "No deadline")
deadline_of(a) == IF a.deadline.k = "missing" THEN NoDeadline ELSE a.deadline

\* one pass of the filter loop (lines 213-251) for one item: the item is
\* kept, skipped, or an exception leaves the loop
filter_item(item, now) ==
    IF ~decodes(item) THEN "skip"
    ELSE LET a == decoded(item)
         IN IF a.t = "empty" THEN "skip"
            ELSE IF a.t # "dict" THEN "skip"
            ELSE IF deadline_of(a) = NoDeadline THEN "skip"
            ELSE IF deadline_of(a).k # "str" THEN "raise"
            ELSE IF strptime(deadline_of(a).v) = ValueError THEN "skip"
            ELSE IF passed(strptime(deadline_of(a).v), now) THEN "skip"
            ELSE "keep"

\* a filter loop that keeps every item
filter_entries_all(buf, now) == [raised |-> FALSE, valid |-> buf]

\* the filter loop over the buffer: valid_entries, unless an item raised
filter_entries(buf, now) ==
    IF \E i \in DOMAIN buf : filter_item(buf[i], now) = "raise"
    THEN [raised |-> TRUE, valid |-> <<>>]
    ELSE [raised |-> FALSE,
          valid |-> SelectSeq(buf, LAMBDA x : filter_item(x, now) = "keep")]

\* datetime.datetime.max, after the midnight of every date
datetime_max == 2 * 99991231 + 1

\* a sort key that puts items without a usable deadline first
get_deadline_min_default(entry) ==
    IF ~decodes(entry) THEN [raised |-> FALSE, key |-> 0]
    ELSE LET a == decoded(entry)
         IN IF a.t = "empty" THEN [raised |-> FALSE, key |-> 0]
            ELSE IF a.t # "dict" THEN [raised |-> TRUE, key |-> 0]
            ELSE IF deadline_of(a) = NoDeadline
            THEN [raised |-> FALSE, key |-> 0]
            ELSE IF deadline_of(a).k # "str" THEN [raised |-> TRUE, key |-> 0]
            ELSE IF strptime(deadline_of(a).v) = ValueError
            THEN [raised |-> FALSE, key |-> 0]
            ELSE [raised |-> FALSE, key |-> 2 * strptime(deadline_of(a).v)]

\* generate_report's sort key (lines 517-527); raised: an exception other
\* than ValueError and JSONDecodeError leaves the key function
get_deadline(entry) ==
    IF ~decodes(entry) THEN [raised |-> FALSE, key |-> datetime_max]
    ELSE LET a == decoded(entry)
         IN IF a.t = "empty" THEN [raised |-> FALSE, key |-> datetime_max]
            ELSE IF a.t # "dict" THEN [raised |-> TRUE, key |-> 0]
            ELSE IF deadline_of(a) = NoDeadline
            THEN [raised |-> FALSE, key |-> datetime_max]
            ELSE IF deadline_of(a).k # "str" THEN [raised |-> TRUE, key |-> 0]
            ELSE IF strptime(deadline_of(a).v) = ValueError
            THEN [raised |-> FALSE, key |-> datetime_max]
            ELSE [raised |-> FALSE, key |-> 2 * strptime(deadline_of(a).v)]

\* entries.sort(key=get_deadline): ascending and stable
RECURSIVE sort(_)
sort(entries) ==
    IF entries = <<>> THEN <<>>
    ELSE LET n == Len(entries)
             init == sort(SubSeq(entries, 1, n - 1))
             x == entries[n]
             k == Cardinality({i \in 1..(n - 1) :
                      get_deadline(init[i]).key <= get_deadline(x).key})
         IN SubSeq(init, 1, k) \o <<x>> \o SubSeq(init, k + 1, n - 1)

\* generate_report(entries=entries); render is what pdf_generator does
\* ("ok" or "raise").  status: "none" (returns None), "path", "raise";
\* rows: the list as the call leaves it, which is what the PDF shows.
generate_report(entries, render) ==
    IF entries = <<>> THEN [status |-> "none", rows |-> <<>>]
    ELSE IF \E i \in DOMAIN entries : get_deadline(entries[i]).raised
    THEN [status |-> "raise", rows |-> entries]
    ELSE [status |-> IF render = "ok" THEN "path" ELSE "raise",
          rows |-> sort(entries)]

\* the severity markers of lines 289 and 291
CriticalWords == {"critical", "urgent", "immediate"}

RECURSIVE Join(_)
\* " ".join(actions), the actions being words
Join(actions) ==
    IF actions = <<>> THEN <<>>
    ELSE IF Len(actions) = 1 THEN <<actions[1]>>
    ELSE <<actions[1], " ">> \o Join(Tail(actions))

\* lines 280-292 (and 314-325): is_critical for one entry, or "error" when
\* json.JSONDecodeError or AttributeError is raised on the way
classify(entry) ==
    LET a == decoded(entry)
    IN IF ~decodes(entry) \/ a.t \notin {"dict", "empty"} THEN "error"
       ELSE IF a.impact.k \in {"null", "num"} THEN "error"
       ELSE IF \/ \E w \in CriticalWords :
                     Contains(Lower(a.impact.v), <<w>>)
               \/ \E w \in CriticalWords :
                     Contains(Lower(Join(a.actions)), <<w>>)
       THEN "critical"
       ELSE "non_critical"

\* the counting loop, lines 277-301
critical_count(entries) ==
    Cardinality({i \in DOMAIN entries : classify(entries[i]) = "critical"})
non_critical_count(entries) ==
    Cardinality({i \in DOMAIN entries : classify(entries[i]) # "critical"})

\* the loop that writes the message, lines 311-345: an entry per line with
\* its marker; an entry that raised is left out
message_body(entries) ==
    LET kept == SelectSeq(entries, LAMBDA x : classify(x) # "error")
    IN [i \in DOMAIN kept |->
           [entry |-> kept[i], critical |-> classify(kept[i]) = "critical"]]

\* the report record: how the reporting step ended, the clock it read, the
\* filter's output, the rows handed to the PDF, the header counts and the
\* lines of the message, and whether Slack took the notification
NoReport ==
    [status |-> "none", now |-> [date |-> 0, midnight |-> FALSE],
     valid |-> <<>>, rows |-> <<>>, total |-> 0, critical |-> 0,
     non_critical |-> 0, body |-> <<>>, delivered |-> FALSE,
     file_exists |-> FALSE, text_posted |-> FALSE, file_uploaded |-> FALSE]

\* send_summary_notification up to the await of send_notification.
\* status: "no_valid" and "no_report" (early returns), "raised", or
\* "notifying" (suspended in send_notification).  f is what the filter
\* loop leaves, filter_entries(buf, now), and g what generate_report
\* returns for it, generate_report(f.valid, render).
send_summary(f, g, now, copy) ==
    LET r == [NoReport EXCEPT !.now = now]
    IN IF f.raised THEN [r EXCEPT !.status = "raised"]
       ELSE IF f.valid = <<>> THEN [r EXCEPT !.status = "no_valid"]
       ELSE IF g.status = "raise"
       THEN [r EXCEPT !.status = "raised", !.valid = f.valid]
       ELSE IF g.status = "none"
       THEN [r EXCEPT !.status = "no_report", !.valid = f.valid]
       ELSE IF copy = "raise"
       THEN [r EXCEPT !.status = "raised", !.valid = f.valid,
                      !.rows = g.rows]
       ELSE [r EXCEPT !.status = "notifying", !.valid = f.valid,
                      !.rows = g.rows, !.total = Len(g.rows),
                      !.critical = critical_count(g.rows),
                      !.non_critical = non_critical_count(g.rows),
                      !.body = message_body(g.rows)]

-----------------------------------------------------------------------------
(* The code a task runs between two suspensions, as operators on the       *)
(* task's view s of what that code reads and writes without a store call:  *)
(* its own locals (pc, idx, rc, analysis, cur) and the fields of the       *)
(* shared objects (delay, buf) with the histories (inv, esc).              *)

Tasks == DOMAIN feeds

FreshCur ==
    [is_processed |-> "pending", check_raised |-> FALSE, invoked |-> FALSE,
     calls |-> 0, outcome |-> "none", msg |-> <<>>, slept |-> 0,
     returned |-> FALSE]

CurEntry(t, s) == feeds[t].entries[s.idx]

\* process_feed's for loop: the end of the feed, or the loop body for the
\* next entry: the debug line that reads entry.title, outside the inner try,
\* then process_entry up to its first await
begin_entry(t, s) ==
    IF s.idx > Len(feeds[t].entries)
    THEN [s EXCEPT !.pc = "done"]
    ELSE IF ~CurEntry(t, s).has_title
    THEN [s EXCEPT !.pc = "raised"]
    ELSE [s EXCEPT !.pc = "sismember", !.cur = FreshCur, !.analysis = NoText,
                   !.rc = 0]

\* a loop that passes over the entry after the current one
next_entry_skipping(t, s) == begin_entry(t, [s EXCEPT !.idx = @ + 2])

\* process_entry has returned: the loop goes on to the next entry
next_entry(t, s) == begin_entry(t, [s EXCEPT !.idx = @ + 1])

\* process_entry has raised: process_feed's inner except logs and continues
abort_entry(t, s) ==
    next_entry(t, [s EXCEPT !.ab[t] = @ \cup {s.idx}])

\* process_entry once analyze_entry has returned text: json.loads, then
\* save_entry up to its first store write
analyze_return(t, s, text) ==
    LET s1 == [s EXCEPT !.analysis = text, !.cur.returned = TRUE]
    IN IF stored_analysis(json_loads(text)).t = "raise"
       THEN abort_entry(t, s1)
       ELSE [s1 EXCEPT !.pc = SaveOrder[1]]

\* one attempt too many
retry_allowed_inclusive(rc) == rc <= max_retries

\* while retry_count < self.max_retries
retry_allowed(rc) == rc < max_retries

\* if self.rate_limit_delay > 0
must_sleep(delay) == delay > 0

\* entry.content[0].value raises when the item has no value
payload_fault(e) == e.ckind = "novalue"

\* a retry that is not counted
next_retry_count_stuck(rc) == rc

\* retry_count += 1
next_retry_count(rc) == rc + 1

RECURSIVE analyze_loop(_, _)

\* the except clause of analyze_entry, entered with str(e) = msg
on_exception(t, s, msg) ==
    IF ~catches(msg)
    THEN abort_entry(t, [s EXCEPT !.esc = TRUE])
    ELSE IF is_rate_limit(msg)
    THEN analyze_loop(t, [s EXCEPT !.rc = next_retry_count(@),
                                   !.delay = handle_rate_limit(msg),
                                   !.cur.slept = 0])
    ELSE analyze_return(t, s, DegradedError)

\* the payload is built and the request issued; the history cur.calls
\* counts the requests as far as one more than max_retries
build_and_call(t, s) ==
    IF payload_fault(CurEntry(t, s))
    THEN on_exception(t, [s EXCEPT !.cur.outcome = "payload"], MsgNoValue)
    ELSE [s EXCEPT !.pc = "create",
                   !.cur.calls = IF @ > max_retries THEN @ ELSE @ + 1]

\* a loop head that never waits
analyze_loop_no_sleep(t, s) ==
    IF retry_allowed(s.rc)
    THEN build_and_call(t, s)
    ELSE analyze_return(t, s, DegradedRateLimit)

\* the head of analyze_entry's while loop
analyze_loop(t, s) ==
    IF retry_allowed(s.rc)
    THEN IF must_sleep(s.delay)
         THEN [s EXCEPT !.pc = "sleep", !.cur.slept = s.delay]
         ELSE build_and_call(t, s)
    ELSE analyze_return(t, s, DegradedRateLimit)

\* failing closed: an unreachable store counts as "already processed"
is_processed_on_error_closed == TRUE

\* is_entry_processed's answer when sismember raised
is_processed_on_error == FALSE

\* a process_entry that does not look at the answer
after_check_unconditional(t, s, is_processed) ==
    LET e == CurEntry(t, s)
        h == get_entry_hash(e)
        s1 == [s EXCEPT !.cur.is_processed =
                            IF is_processed THEN "true" ELSE "false"]
    IN IF ~matches_keywords(e) THEN next_entry(t, s1)
       ELSE analyze_loop(t, [s1 EXCEPT !.rc = 0, !.cur.invoked = TRUE,
                                       !.inv[t][h] = @ + 1])

\* process_entry once is_entry_processed has answered
after_check(t, s, is_processed) ==
    LET e == CurEntry(t, s)
        h == get_entry_hash(e)
        s1 == [s EXCEPT !.cur.is_processed =
                            IF is_processed THEN "true" ELSE "false"]
    IN IF is_processed THEN next_entry(t, s1)
       ELSE IF ~matches_keywords(e) THEN next_entry(t, s1)
       ELSE analyze_loop(t, [s1 EXCEPT !.rc = 0, !.cur.invoked = TRUE,
                                       !.inv[t][h] = @ + 1])

\* process_entry once save_entry has returned: the buffer append
after_save(t, s) ==
    LET e == CurEntry(t, s)
        a == json_loads(s.analysis)
    IN next_entry(t, IF is_buffered(a)
                     THEN [s EXCEPT !.buf = Append(@,
                               important_entry(e, a, feeds[t].url))]
                     ELSE s)

\* a save_entry that returns after its first store write
after_write_first_only(t, s, op) == after_save(t, s)

\* save_entry once the store write op has succeeded
after_write(t, s, op) ==
    LET i == CHOOSE k \in DOMAIN SaveOrder : SaveOrder[k] = op
    IN IF i < Len(SaveOrder)
       THEN [s EXCEPT !.pc = SaveOrder[i + 1]]
       ELSE after_save(t, s)

View(t) ==
    [pc |-> pc[t], idx |-> idx[t], rc |-> retry_count[t],
     analysis |-> analysis[t], cur |-> cur[t], delay |-> rate_limit_delay,
     buf |-> important_entries, inv |-> invocations, esc |-> escaped,
     ab |-> aborted]

Apply(t, s) ==
    /\ pc' = [pc EXCEPT ![t] = s.pc]
    /\ idx' = [idx EXCEPT ![t] = s.idx]
    /\ retry_count' = [retry_count EXCEPT ![t] = s.rc]
    /\ analysis' = [analysis EXCEPT ![t] = s.analysis]
    /\ cur' = [cur EXCEPT ![t] = s.cur]
    /\ rate_limit_delay' = s.delay
    /\ important_entries' = s.buf
    /\ invocations' = s.inv
    /\ escaped' = s.esc
    /\ aborted' = s.ab

-----------------------------------------------------------------------------
(* OpenAIWrapper._truncate_content, for a wrapper whose max_content_length *)
(* is limit (4000 after construction; the calls below use small limits).   *)

TruncationMarker == <<"\n[Content truncated due to length]">>

\* text.rfind(c): the last position of c, counted from 0, or -1
rfind(text, c) ==
    LET hits == {i \in 1..Len(text) : text[i] = c}
    IN IF hits = {} THEN -1
       ELSE (CHOOSE i \in hits : \A j \in hits : j <= i) - 1

\* a truncation that keeps the whole content in front of the marker
truncate_content_uncut(content, limit) ==
    IF Len(content) > limit THEN content \o TruncationMarker ELSE content

truncate_content(content, limit) ==
    IF Len(content) > limit
    THEN LET truncated == SubSeq(content, 1, limit)
             last_period == rfind(truncated, ".")
         IN (IF last_period > 0
             THEN SubSeq(truncated, 1, last_period + 1)
             ELSE truncated) \o TruncationMarker
    ELSE content

\* the labels of the lines of the content analyze_entry builds; a label,
\* like a line end and like the marker, is one element of the text
PayloadLabels ==
    [title |-> "Title: ", link |-> "Link: ", published |-> "Published: ",
     summary |-> "Summary: ", content |-> "Content: "]

\* a line of the payload
Line(label, text) == <<label>> \o text \o <<"\n">>

\* analyze_entry, lines 66-78: the content built for entry e by a wrapper
\* whose max_content_length is limit (e has a content value, or none)
payload(e, limit) ==
    Line(PayloadLabels.title, e.title)
        \o Line(PayloadLabels.link, e.link)
        \o Line(PayloadLabels.published, e.published)
        \o Line(PayloadLabels.summary, truncate_content(e.summary, limit))
        \o (IF e.ckind = "absent" THEN <<>>
            ELSE Line(PayloadLabels.content,
                      truncate_content(e.cvalue, limit)))

\* five lines, each a label, a line end and a text no longer than a
\* truncated one
PayloadBound(limit) ==
    LET n == Cardinality(DOMAIN PayloadLabels)
    IN n * (2 + limit + Len(TruncationMarker))

-----------------------------------------------------------------------------
(* The arguments of the direct calls                                       *)

KeywordSets ==
    { {}, {<<"a">>}, {<<"A">>}, {<<"a", " ", "b">>}, {<<"x">>, <<"b">>} }

MatchEntries ==
    {MkEntry(title, <<"l">>, <<>>, summary, c[1], c[2]) :
        title \in {<<"a">>, <<"A">>, <<"c">>},
        summary \in {<<>>, <<"b">>, <<"B", "c">>},
        c \in {<<"absent", <<>>>>, <<"value", <<"b">>>>, <<"value", <<"x">>>>}}

HashEntries ==
    {MkEntry(title, link, published, <<>>, "absent", <<>>) :
        title \in {<<"a">>, <<"a", "b">>},
        link \in {<<"b", "c">>, <<"c">>},
        published \in {<<>>, <<"c">>}}

RECURSIVE Texts(_)
\* the texts of length n over a letter and the full stop
Texts(n) ==
    IF n = 0 THEN {<<>>}
    ELSE {Append(t, c) : t \in Texts(n - 1), c \in {"a", "."}}

Contents == UNION {Texts(n) : n \in 0..MaxContent}
Limits == 2..MaxLimit

\* n letters
Letters(n) == [i \in 1..n |-> "a"]

\* texts for the fields of an entry: none, one letter, one letter more than
\* the largest limit, and more letters than a bounded payload has
OverText == Letters(MaxLimit + 1)
LongText == Letters(PayloadBound(MaxLimit) + 1)

PayloadEntries ==
    {MkEntry(title, link, published, summary, c[1], c[2]) :
        title \in {<<"a">>, OverText, LongText},
        link \in {<<"a">>, OverText},
        published \in {<<>>, OverText},
        summary \in {<<>>, OverText, LongText},
        c \in {<<"absent", <<>>>>, <<"value", OverText>>,
               <<"value", LongText>>}}

-----------------------------------------------------------------------------
(* Construction: SlackNotifier(), then FeedProcessor(redis_client,         *)
(* slack_notifier, keywords), whose __init__ constructs OpenAIWrapper().   *)
(* A credential is set when its environment variable holds a non-empty     *)
(* string.                                                                 *)

Credentials == [api_key : BOOLEAN, slack_token : BOOLEAN]
AllSet == [api_key |-> TRUE, slack_token |-> TRUE]

\* a construction that reads no credential
construct_unchecked(c) == "idle"

\* SlackNotifier.__init__ and OpenAIWrapper.__init__ raise ValueError when
\* their credential is not set; otherwise the processor exists and is idle
construct(c) ==
    IF ~c.slack_token THEN "config_error"
    ELSE IF ~c.api_key THEN "config_error"
    ELSE "idle"

\* no method has been called directly
NoCall == [op |-> "none"]

-----------------------------------------------------------------------------
(* asyncio.gather with return_exceptions=True, over the task states p     *)

\* gather called without return_exceptions
return_exceptions_off == FALSE

\* the keyword argument at line 51
return_exceptions == TRUE

\* a gather that returns as soon as one task has finished
gather_ready_first(p) ==
    p = <<>> \/ \E t \in DOMAIN p : p[t] \in {"done", "raised"}

\* the await of gather is over
gather_ready(p) ==
    IF return_exceptions
    THEN \A t \in DOMAIN p : p[t] \in {"done", "raised"}
    ELSE \/ \E t \in DOMAIN p : p[t] = "raised"
         \/ \A t \in DOMAIN p : p[t] = "done"

\* the await of gather ends with a task's exception
gather_raises(p) ==
    ~return_exceptions /\ \E t \in DOMAIN p : p[t] = "raised"

-----------------------------------------------------------------------------
(* SlackNotifier.send_notification(message, file_path), called with a      *)
(* file path.  exists: os.path.exists(file_path); outcome: what the one     *)
(* Slack call made does, "ok" (a response that is ok), "not_ok" (a          *)
(* response that is not) or "raise".  The result says what send_notification*)
(* returns and what has reached the channel.                                *)

SlackOutcomes == {"ok", "not_ok", "raise"}

Sent(returns, text, file) ==
    [returns |-> returns, text_posted |-> text, file_uploaded |-> file]

\* lines 39-70.  With a file, files_upload_v2 is the only call: when it
\* raises, the inner handler logs and line 59 reads the unbound response,
\* which the outer handler turns into False.  Without one, chat_postMessage
\* is the only call.
send_notification(exists, outcome) ==
    IF exists
    THEN IF outcome = "ok" THEN Sent(TRUE, FALSE, TRUE)
         ELSE Sent(FALSE, FALSE, FALSE)
    ELSE IF outcome = "ok" THEN Sent(TRUE, TRUE, FALSE)
         ELSE Sent(FALSE, FALSE, FALSE)

-----------------------------------------------------------------------------
(* The clock, and the items a buffer can hold                              *)

\* datetime.now(): in the course of 2030-10-15, or at its midnight exactly
Nows == {[date |-> 20301015, midnight |-> m] : m \in BOOLEAN}

DateToday == <<"2", "0", "3", "0", "-", "1", "0", "-", "1", "5">>
DatePast == <<"2", "0", "3", "0", "-", "1", "0", "-", "1", "4">>
DateSoon == <<"2", "0", "3", "0", "-", "1", "1", "-", "2">>
DateLater == <<"2", "0", "3", "1", "-", "0", "2", "-", "2", "8">>
DateNone == <<"2", "0", "3", "1", "-", "0", "2", "-", "3", "0">>
DateWords == <<"Q", "4">>

Deadlines ==
    {DStr(DateToday), DStr(DatePast), DStr(DateSoon), DStr(DateLater),
     DStr(DateNone), DStr(DateWords), NoDeadline, DMissing, DNull, DNum}

Item(title, a) ==
    [title |-> title, link |-> <<"l">>, analysis |-> a, published |-> <<>>,
     feed_name |-> "A"]

\* an item per deadline, titled by it, and items whose analysis is {} or
\* a list
BufferItems ==
    {Item(d.v, Dict("s", d, <<"upgrade">>, TRUE, FALSE)) :
        d \in Deadlines \ {DMissing, DNull, DNum}}
        \cup {Item(<<"missing">>, Dict("s", DMissing, <<>>, TRUE, FALSE)),
              Item(<<"null">>, Dict("s", DNull, <<>>, TRUE, FALSE)),
              Item(<<"num">>, Dict("s", DNum, <<>>, TRUE, FALSE)),
              Item(<<"empty">>, EmptyDict),
              Item(<<"list">>, ListVal)}
        \cup {Item(<<"by impact">>,
                   [Dict("s", DStr(DateLater), <<"upgrade">>, TRUE, FALSE)
                       EXCEPT !.impact = DStr(<<"Critical", " ", "outage">>)]),
              Item(<<"by action">>,
                   [Dict("s", DStr(DateSoon), <<"check", "URGENT">>, TRUE, FALSE)
                       EXCEPT !.impact = DStr(<<"minor">>)]),
              Item(<<"null impact">>,
                   [Dict("s", DStr(DateSoon), <<"urgent">>, TRUE, FALSE)
                       EXCEPT !.impact = DNull])}

Buffers == UNION {[1..n -> BufferItems] : n \in 0..MaxItems}

-----------------------------------------------------------------------------
(* Initial state: a constructed FeedProcessor, a store that earlier runs   *)
(* may have written to.                                                    *)

InitialStores == {{}, {get_entry_hash(EA)}}

EntryOfHash(h) == CHOOSE e \in {EA, EB, EC, ED} : get_entry_hash(e) = h

Init ==
    /\ feeds \in FeedConfigs
    /\ phase = "idle"
    /\ pc = [t \in Tasks |-> "none"]
    /\ idx = [t \in Tasks |-> 0]
    /\ retry_count = [t \in Tasks |-> 0]
    /\ analysis = [t \in Tasks |-> NoText]
    /\ rate_limit_delay = 0
    /\ processed_entries \in InitialStores
    /\ records = [h \in processed_entries |->
                     entry_data(h, EntryOfHash(h), EmptyDict, "A")]
    /\ important_entries = <<>>
    /\ total_entries = 0
    /\ faults = 0
    /\ invocations = [t \in Tasks |-> [h \in AllHashes |-> 0]]
    /\ escaped = FALSE
    /\ cur = [t \in Tasks |-> FreshCur]
    /\ aborted = [t \in Tasks |-> {}]
    /\ report = NoReport
    /\ creds = AllSet
    /\ call = NoCall

-----------------------------------------------------------------------------
(* Actions *)

\* the program constructs its objects
Construct ==
    /\ phase = "start"
    /\ phase' = construct(creds)
    /\ UNCHANGED <<feeds, creds, call, pc, idx, retry_count, analysis,
                   rate_limit_delay, processed_entries, records,
                   important_entries, total_entries, faults, invocations,
                   escaped, cur, aborted, report>>

\* process_feeds, lines 40-51: a task per feed, then the await of gather
ProcessFeeds ==
    /\ phase = "idle"
    /\ phase' = "fetching"
    /\ pc' = [t \in Tasks |-> "created"]
    /\ UNCHANGED <<feeds, creds, call, idx, retry_count, analysis, rate_limit_delay,
                   processed_entries, records, important_entries,
                   total_entries, faults, invocations, escaped, cur,
                   aborted, report>>

\* a task's first run: process_feed up to the first entry's sismember
StartTask(t) ==
    /\ pc[t] = "created"
    /\ LET f == feeds[t]
       IN CASE f.fetch = "raise" ->
                 /\ Apply(t, [View(t) EXCEPT !.pc = "raised"])
                 /\ UNCHANGED total_entries
            [] f.fetch = "bozo" /\ f.entries = <<>> ->
                 /\ Apply(t, [View(t) EXCEPT !.pc = "done"])
                 /\ UNCHANGED total_entries
            [] OTHER ->
                 /\ total_entries' = total_entries + Len(f.entries)
                 /\ Apply(t, begin_entry(t, [View(t) EXCEPT !.idx = 1]))
    /\ UNCHANGED <<feeds, creds, call, phase, report, processed_entries, records, faults>>

\* sismember answers or raises
SismemberReturns(t) ==
    /\ pc[t] = "sismember"
    /\ LET h == get_entry_hash(CurEntry(t, View(t)))
       IN \/ /\ Apply(t, after_check(t, View(t), h \in processed_entries))
             /\ UNCHANGED faults
          \/ /\ faults < MaxStoreFaults
             /\ faults' = faults + 1
             /\ Apply(t, after_check(t,
                    [View(t) EXCEPT !.cur.check_raised = TRUE],
                    is_processed_on_error))
    /\ UNCHANGED <<feeds, creds, call, phase, report, processed_entries, records, total_entries>>

\* asyncio.sleep returns: the delay is reset and the request issued
SleepReturns(t) ==
    /\ pc[t] = "sleep"
    /\ Apply(t, build_and_call(t, [View(t) EXCEPT !.delay = 0]))
    /\ UNCHANGED <<feeds, creds, call, phase, report, processed_entries, records, total_entries,
                   faults>>

\* chat.completions.create returns a completion or raises
CreateReturns(t) ==
    /\ pc[t] = "create"
    /\ \E o \in ApiOutcomes :
          LET s == [View(t) EXCEPT !.cur.outcome = o.kind, !.cur.msg = o.msg]
          IN IF o.kind = "text"
             THEN IF json_parses(o.text)
                  THEN Apply(t, analyze_return(t, s, o.text))
                  ELSE Apply(t, on_exception(t,
                           [s EXCEPT !.cur.outcome = "malformed"],
                           MsgInvalidJson))
             ELSE Apply(t, on_exception(t, s, o.msg))
    /\ UNCHANGED <<feeds, creds, call, phase, report, processed_entries, records, total_entries,
                   faults>>

\* hset returns or raises
HsetReturns(t) ==
    /\ pc[t] = "hset"
    /\ LET e == CurEntry(t, View(t))
           h == get_entry_hash(e)
       IN \/ /\ records' = (h :> entry_data(h, e, json_loads(analysis[t]),
                                           feeds[t].url)) @@ records
             /\ Apply(t, after_write(t, View(t), "hset"))
             /\ UNCHANGED faults
          \/ /\ faults < MaxStoreFaults
             /\ faults' = faults + 1
             /\ Apply(t, abort_entry(t, View(t)))
             /\ UNCHANGED records
    /\ UNCHANGED <<feeds, creds, call, phase, report, processed_entries, total_entries>>

\* sadd returns or raises
SaddReturns(t) ==
    /\ pc[t] = "sadd"
    /\ LET h == get_entry_hash(CurEntry(t, View(t)))
       IN \/ /\ processed_entries' = sadd(processed_entries, h)
             /\ Apply(t, after_write(t, View(t), "sadd"))
             /\ UNCHANGED faults
          \/ /\ faults < MaxStoreFaults
             /\ faults' = faults + 1
             /\ Apply(t, abort_entry(t, View(t)))
             /\ UNCHANGED processed_entries
    /\ UNCHANGED <<feeds, creds, call, phase, report, records, total_entries>>

\* gather returns (lines 51-73): process_feeds runs on to the await of
\* send_notification, or to its end.  The clock and what the PDF renderer
\* and the file copy do are the environment's.
GatherReturns ==
    /\ phase = "fetching"
    /\ gather_ready(pc)
    /\ IF gather_raises(pc)
       THEN /\ phase' = "raised"
            /\ report' = [NoReport EXCEPT !.status = "gather_raised"]
       ELSE IF important_entries = <<>>
       THEN /\ phase' = "returned"
            /\ report' = [NoReport EXCEPT !.status = "skipped"]
       ELSE \E now \in Nows, render \in {"ok", "raise"}, copy \in {"ok", "raise"} :
               \E f \in {filter_entries(important_entries, now)} :
               \E g \in {generate_report(f.valid, render)} :
               LET r == send_summary(f, g, now, copy)
               IN /\ report' = r
                  /\ phase' = CASE r.status = "notifying" -> "notifying"
                                 [] r.status = "raised" -> "raised"
                                 [] OTHER -> "returned"
    /\ UNCHANGED <<feeds, creds, call, pc, idx, retry_count, analysis, rate_limit_delay,
                   processed_entries, records, important_entries,
                   total_entries, faults, invocations, escaped, cur, aborted>>

\* send_notification returns True or False (it raises nothing; the file
\* is there or was removed, and Slack does what it does): lines
\* 351-354, the buffer is cleared and process_feeds returns
NotifyReturns ==
    /\ phase = "notifying"
    /\ \E exists \in BOOLEAN, outcome \in SlackOutcomes :
          LET sent == send_notification(exists, outcome)
          IN report' = [report EXCEPT !.status = "sent",
                                      !.delivered = sent.returns,
                                      !.file_exists = exists,
                                      !.text_posted = sent.text_posted,
                                      !.file_uploaded = sent.file_uploaded]
    /\ important_entries' = <<>>
    /\ phase' = "returned"
    /\ UNCHANGED <<feeds, creds, call, pc, idx, retry_count, analysis, rate_limit_delay,
                   processed_entries, records, total_entries, faults,
                   invocations, escaped, cur, aborted>>

\* generate_report(entries=...) called on its own with the buffered items
GenerateReport ==
    /\ phase = "idle"
    /\ \E render \in {"ok", "raise"} :
          LET g == generate_report(important_entries, render)
          IN /\ report' = [NoReport EXCEPT !.status = g.status,
                                           !.rows = g.rows]
             /\ phase' = IF g.status = "raise" THEN "raised" ELSE "returned"
    /\ UNCHANGED <<feeds, creds, call, pc, idx, retry_count, analysis, rate_limit_delay,
                   processed_entries, records, important_entries,
                   total_entries, faults, invocations, escaped, cur, aborted>>

\* matches_keywords(entry) on a processor with some keywords
MatchesKeywords ==
    /\ phase = "idle"
    /\ call = NoCall
    /\ \E kws \in KeywordSets, e \in MatchEntries :
          call' = [op |-> "matches_keywords", keywords |-> kws, entry |-> e,
                   result |-> keyword_match(kws, e)]
    /\ UNCHANGED <<feeds, creds, phase, pc, idx, retry_count, analysis,
                   rate_limit_delay, processed_entries, records,
                   important_entries, total_entries, faults, invocations,
                   escaped, cur, aborted, report>>

\* get_entry_hash on two entries
GetEntryHash ==
    /\ phase = "idle"
    /\ call = NoCall
    /\ \E e1, e2 \in HashEntries :
          call' = [op |-> "get_entry_hash", entries |-> <<e1, e2>>,
                   result |-> <<get_entry_hash(e1), get_entry_hash(e2)>>]
    /\ UNCHANGED <<feeds, creds, phase, pc, idx, retry_count, analysis,
                   rate_limit_delay, processed_entries, records,
                   important_entries, total_entries, faults, invocations,
                   escaped, cur, aborted, report>>

\* _truncate_content(content) on a wrapper with some limit
TruncateContent ==
    /\ phase = "idle"
    /\ call = NoCall
    /\ \E content \in Contents, limit \in Limits :
          call' = [op |-> "truncate_content", content |-> content,
                   limit |-> limit,
                   result |-> truncate_content(content, limit)]
    /\ UNCHANGED <<feeds, creds, phase, pc, idx, retry_count, analysis,
                   rate_limit_delay, processed_entries, records,
                   important_entries, total_entries, faults, invocations,
                   escaped, cur, aborted, report>>

\* analyze_entry on an entry, up to the request: the content it builds
BuildPayload ==
    /\ phase = "idle"
    /\ call = NoCall
    /\ \E e \in PayloadEntries, limit \in Limits :
          call' = [op |-> "payload", entry |-> e, limit |-> limit,
                   result |-> payload(e, limit)]
    /\ UNCHANGED <<feeds, creds, phase, pc, idx, retry_count, analysis,
                   rate_limit_delay, processed_entries, records,
                   important_entries, total_entries, faults, invocations,
                   escaped, cur, aborted, report>>

Next ==
    \/ ProcessFeeds
    \/ \E t \in Tasks : StartTask(t)
    \/ \E t \in Tasks : SismemberReturns(t)
    \/ \E t \in Tasks : SleepReturns(t)
    \/ \E t \in Tasks : CreateReturns(t)
    \/ \E t \in Tasks : HsetReturns(t)
    \/ \E t \in Tasks : SaddReturns(t)
    \/ GatherReturns
    \/ NotifyReturns

Spec == Init /\ [][Next]_vars

\* Whenever a step of the run is possible, one is taken: the event loop
\* runs a task that is ready, and every collaborator call and every sleep
\* returns.
Fairness == WF_vars(Next)

\* the configurations but the one whose two feeds carry the same matching
\* entry: its two tasks retry side by side, and its runs are most of the
\* state space
LiveConfigs ==
    {f \in FeedConfigs :
        \A i, j \in 1..Len(f) :
            (i /= j /\ f[i].entries /= <<>>) => f[i].entries /= f[j].entries}

InitLive == Init /\ feeds \in LiveConfigs

SpecLive == InitLive /\ [][Next]_vars /\ Fairness

-----------------------------------------------------------------------------
(* The reporting step on its own: a run over no feeds, or a direct call of *)
(* generate_report, on a processor whose buffer holds items that feed      *)
(* tasks appended.                                                         *)

InitReport ==
    /\ feeds = <<>>
    /\ phase = "idle"
    /\ pc = <<>>
    /\ idx = <<>>
    /\ retry_count = <<>>
    /\ analysis = <<>>
    /\ rate_limit_delay = 0
    /\ processed_entries = {}
    /\ records = <<>>
    /\ important_entries \in Buffers
    /\ total_entries = 0
    /\ faults = 0
    /\ invocations = <<>>
    /\ escaped = FALSE
    /\ cur = <<>>
    /\ aborted = <<>>
    /\ report = NoReport
    /\ creds = AllSet
    /\ call = NoCall

NextReport ==
    \/ ProcessFeeds
    \/ GatherReturns
    \/ NotifyReturns
    \/ GenerateReport

SpecReport == InitReport /\ [][NextReport]_vars

-----------------------------------------------------------------------------
(* Direct calls of the methods that compute without awaiting.              *)

InitCalls ==
    /\ InitReport
    /\ important_entries = <<>>

NextCalls ==
    \/ MatchesKeywords
    \/ GetEntryHash
    \/ TruncateContent
    \/ BuildPayload

SpecCalls == InitCalls /\ [][NextCalls]_vars

-----------------------------------------------------------------------------
(* The program from its start, with any set of credentials, on one feed.   *)

InitStartup ==
    /\ feeds \in {f \in FeedConfigs : Len(f) = 1}
    /\ phase = "start"
    /\ pc = [t \in Tasks |-> "none"]
    /\ idx = [t \in Tasks |-> 0]
    /\ retry_count = [t \in Tasks |-> 0]
    /\ analysis = [t \in Tasks |-> NoText]
    /\ rate_limit_delay = 0
    /\ processed_entries \in InitialStores
    /\ records = [h \in processed_entries |->
                     entry_data(h, EntryOfHash(h), EmptyDict, "A")]
    /\ important_entries = <<>>
    /\ total_entries = 0
    /\ faults = 0
    /\ invocations = [t \in Tasks |-> [h \in AllHashes |-> 0]]
    /\ escaped = FALSE
    /\ cur = [t \in Tasks |-> FreshCur]
    /\ aborted = [t \in Tasks |-> {}]
    /\ report = NoReport
    /\ creds \in Credentials
    /\ call = NoCall

NextStartup ==
    \/ Construct
    \/ Next

SpecStartup == InitStartup /\ [][NextStartup]_vars

-----------------------------------------------------------------------------
(* Properties *)

RECURSIVE SumInvocations(_, _)
SumInvocations(h, n) ==
    IF n = 0 THEN 0 ELSE invocations[n][h] + SumInvocations(h, n - 1)

\* analyze_entry invocations for identity h, over all tasks of the run
InvocationsOf(h) == SumInvocations(h, Len(feeds))

\* the entry cur[t] is about: the one in progress, or the feed's last one
\* once the task is done
LastEntry(t) ==
    feeds[t].entries[IF idx[t] > Len(feeds[t].entries)
                     THEN Len(feeds[t].entries) ELSE idx[t]]

InAnalyze(t) == pc[t] \in {"sleep", "create"}

IsDegradedResult(text) ==
    /\ text.json
    /\ text.val.t = "dict"
    /\ \E i \in DOMAIN text.val.actions : text.val.actions[i] = ManualReview

\* the wait, in tenths of a second, that follows each throttling message
\* when the suggested seconds are taken as they are
SuggestedWait(msg) ==
    CASE msg = MsgHint2 -> 20
      [] msg = MsgHintFrac -> 5
      [] OTHER -> 300

\* the same with the one-second buffer added to a suggested wait
BufferedWait(msg) ==
    CASE msg = MsgHint2 -> 30
      [] msg = MsgHintFrac -> 15
      [] OTHER -> 300

\* C1: in a run over several feed sources, with a store that has not failed,
\* analyze_entry is invoked at most once per identity, whatever the
\* interleaving of the feed tasks.
C1_AtMostOncePerIdentity ==
    (faults = 0 /\ Len(feeds) > 1) => \A h \in AllHashes : InvocationsOf(h) <= 1

\* C2: a feed task that has processed the same entry twice in sequence, with
\* a store that has not failed, leaves one record of it and has invoked
\* analyze_entry for it at most once.
C2_SequentialIdempotence ==
    (/\ Len(feeds) = 1
     /\ feeds[1].entries = <<EA, EA>>
     /\ faults = 0
     /\ pc[1] = "done")
        => /\ get_entry_hash(EA) \in DOMAIN records
           /\ invocations[1][get_entry_hash(EA)] <= 1

\* C3: when the membership check raised, is_entry_processed answered false
\* and a keyword-relevant entry was passed to analyze_entry.
C3_FailOpen ==
    \A t \in Tasks :
        cur[t].check_raised
            => /\ cur[t].is_processed = "false"
               /\ matches_keywords(LastEntry(t)) => cur[t].invoked

C3_Witness ==
    \E t \in Tasks :
        /\ cur[t].check_raised
        /\ matches_keywords(LastEntry(t))
        /\ cur[t].invoked
        /\ cur[t].calls > 0

\* C4: every member of the processed set has its record stored.
C4_MemberHasRecord == processed_entries \subseteq DOMAIN records

C4_Witness ==
    /\ faults > 0
    /\ \E h \in DOMAIN records : h \notin processed_entries
    /\ \E t \in Tasks : \E i \in 1..Len(feeds[t].entries) :
          /\ i < idx[t]
          /\ get_entry_hash(feeds[t].entries[i]) \in processed_entries
          /\ invocations[t][get_entry_hash(feeds[t].entries[i])] > 0

\* C5: one analyze_entry invocation issues at most max_retries analysis
\* calls, and one whose every call was throttled issues exactly max_retries
\* and returns the degraded result.
C5_BoundedRetry ==
    \A t \in Tasks :
        /\ cur[t].calls <= max_retries
        /\ (cur[t].returned /\ cur[t].calls > 0
                /\ retry_count[t] = cur[t].calls)
              => /\ cur[t].calls = max_retries
                 /\ analysis[t] = DegradedRateLimit
                 /\ IsDegradedResult(analysis[t])

C5_Witness ==
    \E t \in Tasks :
        /\ cur[t].returned
        /\ cur[t].calls = max_retries
        /\ retry_count[t] = max_retries

\* C6: no exception leaves analyze_entry; an invocation that is not in
\* progress has returned, and what it returned is a completion that parses
\* as JSON or the degraded result asking for a manual review.
C6_NeverRaises ==
    /\ ~escaped
    /\ \A t \in Tasks :
          /\ (cur[t].invoked /\ ~InAnalyze(t)) => cur[t].returned
          /\ cur[t].returned
                => \/ IsDegradedResult(analysis[t])
                   \/ analysis[t] \in Completions /\ analysis[t].json

C6_Witness ==
    \E t1, t2 \in Tasks :
        /\ cur[t1].returned /\ cur[t1].outcome = "payload"
        /\ cur[t2].returned /\ cur[t2].outcome = "malformed"

\* C7: after a failure of the analysis call that is not a throttling signal
\* the invocation has returned the degraded result; it is not sleeping and
\* has no further call in flight.
C7_OtherNotRetried ==
    \A t \in Tasks :
        cur[t].outcome = "other"
            => /\ ~InAnalyze(t)
               /\ cur[t].returned
               /\ analysis[t] = DegradedError
               /\ IsDegradedResult(analysis[t])

C7_Witness ==
    \E t \in Tasks :
        /\ cur[t].outcome = "other"
        /\ cur[t].returned
        /\ retry_count[t] > 0

\* C8: the step in which a completion that does not parse arrives leaves
\* retry_count and rate_limit_delay as they were, starts no sleep and no
\* call, and returns the degraded result, not the completion.
C8_MalformedNotThrottling ==
    [][\A t \in Tasks :
          (pc[t] = "create" /\ cur'[t] # cur[t]
              /\ cur'[t].outcome = "malformed")
            => /\ retry_count'[t] = retry_count[t]
               /\ rate_limit_delay' = rate_limit_delay
               /\ pc'[t] \notin {"sleep", "create"}
               /\ cur'[t].returned
               /\ IsDegradedResult(analysis'[t])
               /\ analysis'[t] # Garbage]_vars

C8_Witness ==
    \E t \in Tasks :
        /\ cur[t].outcome = "malformed"
        /\ cur[t].returned
        /\ retry_count[t] > 0
        /\ rate_limit_delay > 0

\* C9 as stated: the sleep that follows a throttling signal lasts the
\* suggested seconds when the message has them, and 30 seconds otherwise.
C9_WaitIsSuggested ==
    \A t \in Tasks :
        (pc[t] = "sleep" /\ cur[t].outcome = "throttled")
            => cur[t].slept = SuggestedWait(cur[t].msg)

\* C9: the sleep that follows a throttling signal lasts the suggested
\* seconds plus one second when the message has them, and 30 seconds
\* otherwise.
C9_WaitIsSuggestedPlusBuffer ==
    \A t \in Tasks :
        (pc[t] = "sleep" /\ cur[t].outcome = "throttled")
            => cur[t].slept = BufferedWait(cur[t].msg)

C9_Witness ==
    \E t1, t2 \in Tasks :
        /\ pc[t1] = "sleep" /\ cur[t1].outcome = "throttled"
        /\ cur[t1].msg = MsgHintFrac
        /\ pc[t2] = "sleep" /\ cur[t2].outcome = "throttled"
        /\ cur[t2].msg = MsgMillis

\* C10: a task whose request is in flight again after a throttling signal
\* has itself slept the whole delay of that signal, whatever the other
\* tasks did to the shared rate_limit_delay meanwhile.
C10_RetryAfterOwnSleep ==
    \A t \in Tasks :
        (pc[t] = "create" /\ retry_count[t] > 0)
            => /\ cur[t].outcome = "throttled"
               /\ cur[t].slept > 0
               /\ cur[t].slept = BufferedWait(cur[t].msg)

C10_Witness ==
    \E t1, t2 \in Tasks :
        /\ t1 # t2
        /\ pc[t1] = "create" /\ retry_count[t1] > 0
        /\ pc[t2] = "create" /\ retry_count[t2] = 0 /\ cur[t2].slept > 0
        /\ cur[t2].slept # cur[t1].slept

\* C11: the step in which an analyze_entry invocation returns, while no
\* other task is inside analyze_entry, leaves rate_limit_delay at 0.
C11_DelayResetOnReturn ==
    [][\A t \in Tasks :
          (/\ InAnalyze(t)
           /\ cur'[t] # cur[t]
           /\ cur'[t].returned
           /\ \A u \in Tasks \ {t} : ~InAnalyze(u))
            => rate_limit_delay' = 0]_vars

\* C12: a feed task fails only when its fetch failed: whatever happens to
\* one entry, the task goes on to the next entry and ends normally.
C12_EntryFaultKeepsTask ==
    \A t \in Tasks : pc[t] = "raised" => feeds[t].fetch = "raise"

\* process_feeds is past the await of gather
Aggregating == phase \in {"notifying", "returned", "raised"}

\* C13: when gather has returned, every task was started and has ended,
\* every task that did not fail has gone through all the entries of its
\* feed, and gather did not raise a task's exception into process_feeds.
C13_SiblingsUnaffected ==
    Aggregating =>
        /\ \A t \in Tasks : pc[t] \in {"done", "raised"}
        /\ \A t \in Tasks :
              (pc[t] = "done" /\ feeds[t].entries # <<>>)
                  => idx[t] = Len(feeds[t].entries) + 1
        /\ report.status # "gather_raised"

\* a run in which feed A's fetch raised and feed B's two entries were gone
\* through, one of them analysed
C13_Witness ==
    /\ Aggregating
    /\ \E t, u \in Tasks :
          /\ feeds[t].fetch = "raise" /\ pc[t] = "raised"
          /\ pc[u] = "done" /\ idx[u] = 3
          /\ \E h \in AllHashes : invocations[u][h] > 0

\* C14: process_feeds never ends by raising.
C14_ReturnsNormally == phase # "raised"

\* C15: past the await of gather no task is still running, and the buffer
\* changes only by being cleared.
C15_AggregateAfterTasks ==
    [][/\ Aggregating' => \A t \in Tasks : pc'[t] \in {"done", "raised"}
       /\ Aggregating =>
             important_entries' \in {important_entries, <<>>}]_vars

\* a notification built from the items of two feed tasks
C15_Witness ==
    /\ report.status = "sent"
    /\ \E i, j \in DOMAIN report.rows :
          report.rows[i].feed_name = "A" /\ report.rows[j].feed_name = "B"

\* C16: when process_feeds has returned, the buffer is empty.
C16_BufferEmptyAfterReport ==
    phase = "returned" => important_entries = <<>>

\* the filter loop has run to its end and the buffer is as it read it
Filtered == report.status \in {"no_valid", "notifying"}

\* conditions (a)-(d) of the inclusion rule, the deadline's date compared
\* with the date of the clock
Includable(item, now) ==
    /\ item.analysis.t = "dict"
    /\ item.analysis.deadline.k = "str"
    /\ item.analysis.deadline # NoDeadline
    /\ strptime(item.analysis.deadline.v) # ValueError
    /\ strptime(item.analysis.deadline.v) >= now.date

InSeq(x, seq) == \E i \in DOMAIN seq : seq[i] = x

\* C17: a buffered item is in the filter's output exactly if its analysis
\* is a non-empty dict whose deadline is a string other than "No deadline"
\* that parses as a date not before the date of the run.
C17_IncludedIffDatedNotPast ==
    Filtered =>
        \A i \in DOMAIN important_entries :
            InSeq(important_entries[i], report.valid)
                <=> Includable(important_entries[i], report.now)

\* send_summary_notification has run on the buffer
Summarised ==
    report.status \in {"no_valid", "no_report", "notifying", "sent", "raised"}

\* C18: whatever the other items of the buffer are, an item with a
\* deadline that lies after the day of the run is in the filter's output.
C18_BadItemAloneExcluded ==
    Summarised =>
        \A i \in DOMAIN important_entries :
            LET item == important_entries[i]
            IN (Includable(item, report.now)
                    /\ strptime(item.analysis.deadline.v) > report.now.date)
                  => InSeq(item, report.valid)

\* the item holds a result that analyze_entry made up after a failure
IsDegradedItem(item) == IsDegradedResult(json_dumps(item.analysis))

\* C19: a buffered item with a degraded result is among the rows of the
\* report.
C19_DegradedRowReported ==
    Filtered =>
        \A i \in DOMAIN important_entries :
            IsDegradedItem(important_entries[i])
                => InSeq(important_entries[i], report.rows)

\* the date an item's deadline names, ValueError when it names none
RealDate(item) ==
    IF item.analysis.t = "dict" /\ item.analysis.deadline.k = "str"
    THEN strptime(item.analysis.deadline.v)
    ELSE ValueError

Count(x, seq) == Cardinality({i \in DOMAIN seq : seq[i] = x})

Fields(e) == {e.title, e.summary, content_value(e)}

\* C21 as stated: the answer is true exactly when no keyword is configured
\* or some keyword is, letter case aside, a substring of the title, of the
\* summary or of the content text.
C21_MatchesSomeField ==
    call.op = "matches_keywords" =>
        (call.result <=>
            \/ call.keywords = {}
            \/ \E k \in call.keywords : \E f \in Fields(call.entry) :
                  Contains(Lower(f), Lower(k)))

\* C21 amended: the answer is true exactly when no keyword is configured
\* or some keyword is, letter case aside, a substring of the text made of
\* title, summary and content text joined by single spaces.
C21_MatchesJoinedText ==
    call.op = "matches_keywords" =>
        (call.result <=>
            \/ call.keywords = {}
            \/ \E k \in call.keywords :
                  Contains(Lower(call.entry.title \o <<" ">>
                                    \o call.entry.summary \o <<" ">>
                                    \o content_value(call.entry)),
                           Lower(k)))

\* a keyword written in capitals matched a title in small letters, and a
\* keyword that lies in no single field matched across two of them
C21_Witness ==
    /\ call.op = "matches_keywords"
    /\ call.result
    /\ \/ call.keywords = {<<"A">>} /\ call.entry.title = <<"a">>
       \/ /\ call.keywords = {<<"a", " ", "b">>}
          /\ \A f \in Fields(call.entry) :
                ~Contains(Lower(f), <<"a", " ", "b">>)

Triple(e) == <<e.title, e.link, e.published>>

\* C23: two entries get the same identity exactly when their (title, link,
\* published) triples are equal.
C23_IdentitySeparates ==
    call.op = "get_entry_hash" =>
        (call.result[1] = call.result[2]
            <=> Triple(call.entries[1]) = Triple(call.entries[2]))

\* C24: content within the limit comes back unchanged; longer content
\* comes back as a prefix of at most limit characters followed by the
\* marker.
C24_TruncateBounded ==
    call.op = "truncate_content" =>
        IF Len(call.content) <= call.limit
        THEN call.result = call.content
        ELSE /\ \E n \in 0..call.limit :
                   call.result = SubSeq(call.content, 1, n) \o TruncationMarker
             /\ Len(call.result) <= call.limit + Len(TruncationMarker)

\* content longer than the limit with no full stop within the limit
C24_Witness ==
    /\ call.op = "truncate_content"
    /\ Len(call.content) > call.limit
    /\ \A i \in 1..call.limit : call.content[i] # "."
    /\ Len(call.result) = call.limit + Len(TruncationMarker)

\* C25: for content longer than the limit with a full stop among its first
\* limit characters, the result is the content up to and including the
\* last such full stop, followed by the marker.
C25_EndsAtLastTerminator ==
    (/\ call.op = "truncate_content"
     /\ Len(call.content) > call.limit
     /\ \E i \in 1..call.limit : call.content[i] = ".")
        => LET stops == {i \in 1..call.limit : call.content[i] = "."}
               last == CHOOSE i \in stops : \A j \in stops : j <= i
           IN call.result = SubSeq(call.content, 1, last) \o TruncationMarker

\* the item's impact text or its action text holds a severity marker,
\* letter case aside
HasMarker(item) ==
    \/ /\ item.analysis.impact.k = "str"
       /\ \E w \in CriticalWords :
             Contains(Lower(item.analysis.impact.v), <<w>>)
    \/ \E i \in DOMAIN item.analysis.actions :
          \E w \in CriticalWords :
             Lower(<<item.analysis.actions[i]>>) = <<w>>

\* C22: the header counts the reported rows that hold a marker as critical
\* and the others as non-critical, the two counts add up to the total, and
\* a row carries the marker in the message exactly if it holds one.
C22_CriticalPartition ==
    report.status = "notifying" =>
        /\ report.total = Len(report.rows)
        /\ report.critical + report.non_critical = report.total
        /\ report.critical
              = Cardinality({i \in DOMAIN report.rows :
                                HasMarker(report.rows[i])})
        /\ \A i \in DOMAIN report.rows :
              HasMarker(report.rows[i])
                  <=> \E j \in DOMAIN report.body :
                         /\ report.body[j].entry = report.rows[i]
                         /\ report.body[j].critical

\* C26: the step in which the store answers that the entry's identity is
\* a member of the processed set takes the task to its next entry and
\* changes nothing else: no analysis invocation, no record, no new member,
\* no buffer item.
C26_ProcessedEntryUntouched ==
    [][\A t \in Tasks :
          (/\ pc[t] = "sismember"
           /\ get_entry_hash(feeds[t].entries[idx[t]]) \in processed_entries
           /\ faults' = faults
           /\ <<pc'[t], idx'[t]>> # <<pc[t], idx[t]>>)
            => /\ idx'[t] = idx[t] + 1
               /\ invocations' = invocations
               /\ records' = records
               /\ processed_entries' = processed_entries
               /\ important_entries' = important_entries
               /\ rate_limit_delay' = rate_limit_delay]_vars

\* a run without faults over a new entry and then one that is a member:
\* one invocation, one record, one buffer item
C26_Witness ==
    /\ phase = "fetching"
    /\ faults = 0
    /\ Len(feeds) = 1
    /\ pc[1] = "done"
    /\ Len(feeds[1].entries) = 2
    /\ cur[1].is_processed = "true"
    /\ ~cur[1].invoked
    /\ InvocationsOf(get_entry_hash(EA)) = 1
    /\ DOMAIN records = {get_entry_hash(EA)}
    /\ Len(important_entries) = 1

\* C29: no step removes a member of the processed set or a stored record.
C29_LedgerGrows ==
    [][/\ processed_entries \subseteq processed_entries'
       /\ DOMAIN records \subseteq DOMAIN records']_vars

\* a store that held one identity before the run and holds three now
C29_Witness ==
    /\ get_entry_hash(EA) \in processed_entries
    /\ InvocationsOf(get_entry_hash(EA)) = 0
    /\ Cardinality(processed_entries) = 3
    /\ Cardinality(DOMAIN records) = 3

\* the tasks with an analysis call in flight
InFlight == {t \in Tasks : pc[t] = "create"}

\* C30: a task moves through its feed one entry at a time, from an entry
\* it has begun to the one after it, and no more analysis calls are in
\* flight than there are feeds.
C30_SequentialWithinFeed ==
    [][/\ \A t \in Tasks :
             idx'[t] # idx[t] =>
                /\ idx'[t] = idx[t] + 1
                /\ idx[t] <= Len(feeds[t].entries)
                /\ idx[t] > 0 => pc[t] \in {"sismember", "sleep", "create",
                                            "hset", "sadd"}
       /\ Cardinality(InFlight') <= Len(feeds)]_vars

\* both feed tasks have an analysis call in flight
C30_Witness ==
    /\ Len(feeds) = 2
    /\ InFlight = {1, 2}

\* process_feeds has ended, by returning or by raising
Ended == phase \in {"returned", "raised"}

\* C28: a run that has begun fetching ends.
C28_RunTerminates == (phase = "fetching") ~> Ended

\* a run has ended in which a task used up its retries
C28_Witness ==
    /\ Ended
    /\ \E t \in Tasks : retry_count[t] = max_retries

\* the items of the buffer that the filter loop keeps
Kept(buf, now) == SelectSeq(buf, LAMBDA x : filter_item(x, now) = "keep")

\* C31: send_notification is awaited only from the await of gather, with
\* every task ended and a buffer that is not empty; the rows it is sent for
\* are the buffer's items that pass the filter, in sorted order, and there
\* is one at least; when it returns the run is over, so that a run awaits it
\* once at most.
C31_NotifiedOnceWithFiltered ==
    [][/\ (phase' = "notifying" /\ phase # "notifying") =>
             /\ phase = "fetching"
             /\ \A t \in Tasks : pc[t] \in {"done", "raised"}
             /\ important_entries # <<>>
             /\ report'.valid = Kept(important_entries, report'.now)
             /\ report'.valid # <<>>
             /\ report'.rows = sort(report'.valid)
       /\ phase = "notifying" => phase' = "returned"]_vars

\* send_notification is awaited for some of the buffered items, not for all
C31_Witness ==
    /\ phase = "notifying"
    /\ Len(report.rows) >= 1
    /\ Len(report.rows) < Len(important_entries)

\* C32: every item of the buffer carries a result whose is_important flag
\* is true: no empty object and no result flagged false is appended.
C32_OnlyImportantBuffered ==
    \A i \in DOMAIN important_entries :
        /\ important_entries[i].analysis.t = "dict"
        /\ important_entries[i].analysis.is_important

\* the identity of the entry task t is at
CurHash(t) == get_entry_hash(feeds[t].entries[idx[t]])

\* task t takes this step from the await named op
StepsFrom(t, op) ==
    /\ pc[t] = op
    /\ pc'[t] # op \/ idx'[t] # idx[t]

\* C33: the steps of an entry come in order.  analyze_entry is entered only
\* for an entry whose ledger check answered no and that matches the
\* keywords; the record is written only once analyze_entry has returned;
\* the identity is marked only once its record is written; the buffer grows
\* only in the step in which the membership add succeeds, the record being
\* there; and a store write that raises leaves buffer and ledger as they
\* were.
C33_StepsInOrder ==
    [][/\ \A t \in Tasks :
             cur[t].invoked =>
                /\ cur[t].is_processed = "false"
                /\ matches_keywords(LastEntry(t))
       /\ records' # records =>
             \E t \in Tasks : StepsFrom(t, "hset") /\ cur[t].returned
       /\ processed_entries' # processed_entries =>
             \E t \in Tasks :
                /\ StepsFrom(t, "sadd")
                /\ CurHash(t) \in DOMAIN records
                /\ processed_entries' = processed_entries \cup {CurHash(t)}
       /\ Len(important_entries') > Len(important_entries) =>
             \E t \in Tasks :
                /\ StepsFrom(t, "sadd")
                /\ faults' = faults
                /\ CurHash(t) \in DOMAIN records
                /\ CurHash(t) \in processed_entries'
       /\ faults' # faults =>
             /\ important_entries' = important_entries
             /\ processed_entries' = processed_entries
             /\ records' = records]_vars

\* an entry went all the way into the buffer after another entry's record
\* write had raised
C33_Witness ==
    /\ faults > 0
    /\ \E t \in Tasks : aborted[t] # {}
    /\ important_entries # <<>>
    /\ \A i \in DOMAIN important_entries :
          LET h == important_entries[i].title \o important_entries[i].link
                       \o important_entries[i].published
          IN h \in processed_entries /\ h \in DOMAIN records

\* C34: the content built for the request is no longer than five lines of
\* truncated text, whatever the entry.
C34_PayloadBounded ==
    call.op = "payload" => Len(call.result) <= PayloadBound(call.limit)

\* C35: send_notification returns True only when the message text has
\* reached the channel, and with it the file when there is one.
C35_MessageDelivered ==
    (report.status = "sent" /\ report.delivered) =>
        /\ report.text_posted
        /\ report.file_exists => report.file_uploaded

\* C36: a task that leaves an entry after analyze_entry has returned for
\* it, no store write having raised, leaves it recorded and marked
\* processed, whatever the result was.
C36_ReturnedIsRecorded ==
    [][\A t \in Tasks :
          (/\ pc[t] \in {"sleep", "create", "hset", "sadd"}
           /\ idx'[t] > idx[t]
           /\ faults' = faults
           /\ ~escaped')
             => /\ CurHash(t) \in processed_entries'
                /\ CurHash(t) \in DOMAIN records']_vars

\* no configured keyword occurs in the entry
Rejected(e) == ~keyword_match(keywords, e)

\* C37: the step in which a task gets the ledger's answer for an entry that
\* no keyword matches takes the task to its next entry and changes neither
\* the ledger, the records, the buffer nor the count of analyze_entry
\* invocations; and an identity that joins the ledger has been passed to
\* analyze_entry.
C37_RejectedEntryUntouched ==
    [][/\ \A t \in Tasks :
             (StepsFrom(t, "sismember") /\ Rejected(feeds[t].entries[idx[t]]))
                => /\ idx'[t] = idx[t] + 1
                   /\ pc'[t] \in {"sismember", "done", "raised"}
                   /\ processed_entries' = processed_entries
                   /\ records' = records
                   /\ important_entries' = important_entries
                   /\ invocations' = invocations
       /\ \A h \in processed_entries' \ processed_entries :
             InvocationsOf(h) > 0]_vars

\* a run is over in which a task passed an entry that no keyword matches,
\* and which marked another entry
C37_Witness ==
    /\ Ended
    /\ \E t \in Tasks :
          \E i \in DOMAIN feeds[t].entries :
             /\ Rejected(feeds[t].entries[i])
             /\ get_entry_hash(feeds[t].entries[i]) \notin processed_entries
             /\ i \notin aborted[t]
    /\ \E h \in processed_entries : InvocationsOf(h) > 0

\* the identity of the entry a buffered item was made from
ItemHash(item) == item.title \o item.link \o item.published

\* C38: while no store call has raised, the items of the buffer have
\* distinct identities.
C38_BufferIdentitiesDistinct ==
    faults = 0 =>
        \A i, j \in DOMAIN important_entries :
            i # j => ItemHash(important_entries[i])
                         # ItemHash(important_entries[j])

\* C39: the message lists the rows of the report, each once and in the
\* report's order, and its total is their number.
C39_BodyListsRows ==
    report.status \in {"notifying", "sent"} =>
        /\ [i \in DOMAIN report.body |-> report.body[i].entry] = report.rows
        /\ report.total = Len(report.rows)

====
